---- MODULE Spec2Model ----
(***************************************************************************)
(* Model of the sane-scan wrapper (src/src/lib.rs): the library context    *)
(* `Sane`, the `DeviceHandle` scan-session state machine and the           *)
(* operations on it.  The scanner ABI (libsane) is the environment: every  *)
(* status, count and byte it hands back is chosen nondeterministically     *)
(* from the values the SANE standard allows.                               *)
(*                                                                         *)
(* Every operation records, in `calls`, the ABI entry points it invoked    *)
(* (in order, with what the ABI answered) and, in `last`, what it returned *)
(* to the caller.                                                          *)
(***************************************************************************)
EXTENDS Integers, Sequences, FiniteSets, TLC

\* ---------------------------------------------------------------- bounds
MaxContexts == 1      \* live `Sane` values
MaxInits == 2         \* successful Sane::init calls in one run
MaxDevices == 2       \* slots of a device array before its terminating null
MaxOptCount == 3      \* option count reported by option 0
MaxBufLen == 1        \* length of a read buffer (stands for 1024 * 1024 in read_to_vec)
MaxReads == 2         \* chunks the ABI delivers before it must end a stream
MaxBytesPerLine == 1  \* Parameters.bytes_per_line
MaxLines == 1         \* Parameters.lines (the standard also allows -1: unknown)
MaxRange == 4         \* the words of a Range constraint lie in -MaxRange..MaxRange

\* ------------------------------------------------------------ ABI values
\* sys::Status (SANE_Status); three representatives of the error statuses
Status == {"Good", "Eof", "IoError"}

\* sys::ValueType (SANE_Value_Type)
ValueType == {"Bool", "Int", "Fixed", "String", "Button", "Group"}

\* the tags of DeviceOptionValue
DeviceOptionValue == {"Bool", "Int", "Fixed", "String", "Button", "Group"}

\* u8, two values that tell the bytes of a stream apart
Bytes == {0, 1}

\* sys::Parameters, the two fields the wrapper reads: <<bytes_per_line, lines>>
Parameters == {<<b, l>> : b \in 0..MaxBytesPerLine, l \in -1..MaxLines}

\* sequences over S of length at most n
SeqUpTo(S, n) == UNION {[1..k -> S] : k \in 0..n}

\* one ABI invocation: entry point, option index (0 when it takes none),
\* returned status ("void" for entry points returning nothing, "null" /
\* "ptr" for a returned pointer) and the values written through out-pointers
Call(fn, idx, st, out) ==
    [fn |-> fn, idx |-> idx, action |-> "none", st |-> st, out |-> out]

\* sane_control_option(handle, idx, action, value, info)
Control(idx, action, st, out) ==
    [fn |-> "sane_control_option", idx |-> idx, action |-> action, st |-> st, out |-> out]

\* what an operation handed back: Ok / Err(Error(status)) / a panic
Ok(val) == [kind |-> "Ok", status |-> "none", val |-> val]
Err(status) == [kind |-> "Err", status |-> status, val |-> <<>>]
Panic == [kind |-> "Panic", status |-> "none", val |-> <<>>]
\* read_to_vec is inside its loop
Running == [kind |-> "Running", status |-> "none", val |-> <<>>]

\* Option<usize> as a sequence of length at most one
None == <<>>
Some(n) == <<n>>

VARIABLES
    sane,       \* number of live `Sane` values
    handle,     \* "none" (no DeviceHandle) or "open"
    scanning,   \* DeviceHandle.scanning
    session,    \* ABI side: sane_start succeeded and no sane_cancel since
    pc,         \* "idle", or "read_to_vec" while its loop is running
    image,      \* read_to_vec: the accumulated bytes
    buf,        \* read_to_vec: the working buffer
    calls,      \* ABI invocations of the operation in `last`
    last,       \* the latest operation: name, arguments, `scanning` before, result
    prev,       \* after a drop of the handle: how the operation before it ended
    inits,      \* history: Sane::init calls that returned a context
    exits       \* history: sane_exit invocations

vars == <<sane, handle, scanning, session, pc, image, buf, calls, last, prev,
          inits, exits>>

Op(op, args, pre, ret) ==
    [op |-> op, args |-> args, pre |-> pre,
     kind |-> ret.kind, status |-> ret.status, val |-> ret.val]

\* what is kept of the operation before a drop of the handle: whether it was a
\* read that returned an error ("read_err"), a read_to_vec that returned
\* after a read error ("read_to_vec_err"), or anything else ("other")
Remember ==
    IF last.op = "read" /\ last.kind = "Err" THEN "read_err"
    ELSE IF /\ last.op = "read_to_vec" /\ last.kind = "Ok" /\ calls # <<>>
            /\ calls[Len(calls)].fn = "sane_read"
            /\ calls[Len(calls)].st \notin {"Good", "Eof"}
    THEN "read_to_vec_err"
    ELSE "other"

Init ==
    /\ sane = 0
    /\ handle = "none"
    /\ scanning = FALSE
    /\ session = FALSE
    /\ pc = "idle"
    /\ image = <<>>
    /\ buf = <<>>
    /\ calls = <<>>
    /\ last = Op("none", <<>>, FALSE, Ok(<<>>))
    /\ prev = "other"
    /\ inits = 0
    /\ exits = 0

\* the ABI session after the invocations cs, starting from s: begun by a
\* successful sane_start, ended by sane_cancel and by sane_close
RECURSIVE SessionAfter(_, _)
SessionAfter(s, cs) ==
    IF cs = <<>> THEN s
    ELSE LET c == Head(cs)
             s1 == IF c.fn = "sane_start" /\ c.st = "Good" THEN TRUE
                   ELSE IF c.fn \in {"sane_cancel", "sane_close"} THEN FALSE
                   ELSE s
         IN SessionAfter(s1, Tail(cs))

\* number of invocations of fn among cs
Count(cs, fn) == Len(SelectSeq(cs, LAMBDA c : c.fn = fn))

\* an operation that completes in one step
Finish(op, args, ret, cs) ==
    /\ inits' = IF op = "init" /\ ret.kind = "Ok" THEN inits + 1 ELSE inits
    /\ exits' = exits + Count(cs, "sane_exit")
    /\ last' = Op(op, args, scanning, ret)
    /\ prev' = IF op = "drop_handle" THEN Remember ELSE "other"
    /\ calls' = cs
    /\ session' = SessionAfter(session, cs)

\* ------------------------------------------------------------------ Sane

\* an init that hands out a context whatever the ABI said
Sane_init_always(st) == Ok(<<>>)

\* Sane::init, given the status of sane_init
Sane_init(st) ==
    IF st # "Good" THEN Err(st) ELSE Ok(<<>>)

SaneInit ==
    /\ pc = "idle"
    /\ sane < MaxContexts
    /\ inits < MaxInits
    /\ \E st \in Status :
        /\ Finish("init", <<>>, Sane_init(st), <<Call("sane_init", 0, st, <<>>)>>)
        /\ sane' = IF Sane_init(st).kind = "Ok" THEN sane + 1 ELSE sane
    /\ UNCHANGED <<handle, scanning, pc, image, buf>>

\* a drop that leaves the ABI initialised
Sane_drop_nothing == <<>>

\* impl Drop for Sane
Sane_drop == <<Call("sane_exit", 0, "void", <<>>)>>

SaneDrop ==
    /\ pc = "idle"
    /\ sane > 0
    /\ Finish("drop_sane", <<>>, Ok(<<>>), Sane_drop)
    /\ sane' = sane - 1
    /\ UNCHANGED <<handle, scanning, pc, image, buf>>

\* a null pointer in the device array
NullPtr == <<>>

\* sys::Device records <<name, vendor, model, type_>> in ABI memory; no two
\* strings are the same, so that a copy shows where it was taken from
DeviceRecords == {<<1, 2, 3, 4>>, <<5, 6, 7, 8>>}

\* the arrays sane_get_devices hands out: pointers to records and nulls; the
\* slot after the last one written here holds the terminating null
DeviceLists == SeqUpTo(DeviceRecords \cup {NullPtr}, MaxDevices)

\* get_devices, `while !(*device_list.add(device_count)).is_null()`, from
\* device_count = n on
RECURSIVE device_count(_, _)
device_count(device_list, n) ==
    IF n + 1 > Len(device_list) \/ device_list[n + 1] = NullPtr THEN n
    ELSE device_count(device_list, n + 1)

\* a copy that takes the vendor for the model and the model for the vendor
Device_swapped(rec) ==
    [name |-> rec[1], vendor |-> rec[3], model |-> rec[2], type_ |-> rec[4]]

\* get_devices, the closure of the map: the Device copied out of a record
Device(rec) ==
    [name |-> rec[1], vendor |-> rec[2], model |-> rec[3], type_ |-> rec[4]]

\* Sane::get_devices, given the status of sane_get_devices and the array it
\* handed out.  The slots of the array and the records the wrapper reads are
\* logged after the ABI invocation, as "device_list" and "device" entries
get_devices(st, device_list) ==
    LET n == device_count(device_list, 0)
        slots == [i \in 1..(n + 1) |->
                     Call("device_list", i, IF i <= n THEN "ptr" ELSE "null", <<>>)]
        records == [i \in 1..n |-> Call("device", i, "ptr", device_list[i])]
    IN IF st # "Good"
       THEN [ret |-> Err(st), calls |-> <<Call("sane_get_devices", 0, st, <<>>)>>]
       ELSE [ret |-> Ok([i \in 1..n |-> Device(device_list[i])]),
             calls |-> <<Call("sane_get_devices", 0, st, device_list)>>
                           \o slots \o records]

GetDevices ==
    /\ pc = "idle"
    /\ sane > 0
    /\ \E st \in Status, device_list \in DeviceLists :
        /\ st # "Good" => device_list = <<>>
        /\ LET r == get_devices(st, device_list)
           IN Finish("get_devices", <<>>, r.ret, r.calls)
    /\ UNCHANGED <<sane, handle, scanning, pc, image, buf>>

\* ---------------------------------------------------------- DeviceHandle

\* Device::open, given the status of sane_open
Device_open(st) ==
    IF st # "Good" THEN Err(st) ELSE Ok(<<>>)

Open ==
    /\ pc = "idle"
    /\ sane > 0
    /\ handle = "none"
    /\ \E st \in Status :
        /\ Finish("open", <<>>, Device_open(st), <<Call("sane_open", 0, st, <<>>)>>)
        /\ handle' = IF Device_open(st).kind = "Ok" THEN "open" ELSE "none"
    /\ scanning' = FALSE
    /\ UNCHANGED <<sane, pc, image, buf>>

\* a drop that forgets the cancel
DeviceHandle_drop_close_only(scn) ==
    <<Call("sane_close", 0, "void", <<>>)>>

\* a drop that cancels whether a scan is in progress or not
DeviceHandle_drop_cancel_always(scn) ==
    <<Call("sane_cancel", 0, "void", <<>>), Call("sane_close", 0, "void", <<>>)>>

\* impl Drop for DeviceHandle: the ABI invocations, given self.scanning
DeviceHandle_drop(scn) ==
    (IF scn THEN <<Call("sane_cancel", 0, "void", <<>>)>> ELSE <<>>)
        \o <<Call("sane_close", 0, "void", <<>>)>>

DropHandle ==
    /\ pc = "idle"
    /\ handle = "open"
    /\ Finish("drop_handle", <<>>, Ok(<<>>), DeviceHandle_drop(scanning))
    /\ handle' = "none"
    /\ scanning' = FALSE
    /\ UNCHANGED <<sane, pc, image, buf>>

\* DeviceHandle::get_parameters, given what sane_get_parameters answered
get_parameters(pst, params) ==
    [ret |-> IF pst # "Good" THEN Err(pst) ELSE Ok(params),
     calls |-> <<Call("sane_get_parameters", 0, pst,
                      IF pst = "Good" THEN params ELSE <<>>)>>]

\* what sane_get_parameters may answer: Good with parameters, or an error
\* status (the zeroed default parameters are then left as they were)
ParameterAnswers ==
    {<<pst, params>> \in Status \X Parameters : pst = "Good" \/ params = <<0, 0>>}

\* stands for the answer of an entry point that is not invoked
NoAnswer == <<"Good", <<0, 0>>>>

GetParameters ==
    /\ pc = "idle"
    /\ handle = "open"
    /\ \E gp \in ParameterAnswers :
        LET r == get_parameters(gp[1], gp[2])
        IN Finish("get_parameters", <<>>, r.ret, r.calls)
    /\ UNCHANGED <<sane, handle, scanning, pc, image, buf>>

\* a start_scan that raises the flag before it asks the ABI
start_scan_flag_first(scn, st, pst, params) ==
    LET start == <<Call("sane_start", 0, st, <<>>)>>
        gp == get_parameters(pst, params)
    IN IF st # "Good"
       THEN [ret |-> Err(st), scanning |-> TRUE, calls |-> start]
       ELSE IF gp.ret.kind = "Err"
       THEN [ret |-> gp.ret, scanning |-> TRUE, calls |-> start \o gp.calls]
       ELSE [ret |-> Ok(gp.ret.val), scanning |-> TRUE, calls |-> start \o gp.calls]

\* DeviceHandle::start_scan, given self.scanning, the status of sane_start
\* and what sane_get_parameters answers if it is asked
start_scan(scn, st, pst, params) ==
    LET start == <<Call("sane_start", 0, st, <<>>)>>
        gp == get_parameters(pst, params)
    IN IF st # "Good"
       THEN [ret |-> Err(st), scanning |-> scn, calls |-> start]
       ELSE IF gp.ret.kind = "Err"
       THEN [ret |-> gp.ret, scanning |-> scn, calls |-> start \o gp.calls]
       ELSE [ret |-> Ok(gp.ret.val), scanning |-> TRUE, calls |-> start \o gp.calls]

StartScan ==
    /\ pc = "idle"
    /\ handle = "open"
    /\ \E st \in Status : \E gp \in (IF st = "Good" THEN ParameterAnswers ELSE {NoAnswer}) :
        LET r == start_scan(scanning, st, gp[1], gp[2])
        IN /\ Finish("start_scan", <<>>, r.ret, r.calls)
           /\ scanning' = r.scanning
    /\ UNCHANGED <<sane, handle, pc, image, buf>>

\* the buffer after the ABI wrote data at its start
WriteBuf(b, data) == data \o SubSeq(b, Len(data) + 1, Len(b))

\* a read without the early return on an idle handle
read_unguarded(scn, st, data) ==
    LET rd == <<Call("sane_read", 0, st, data)>>
        bytes_written == Len(data)
    IN IF st = "Eof"
       THEN IF bytes_written = 0
            THEN [ret |-> Ok(None), scanning |-> FALSE,
                  calls |-> rd \o <<Call("sane_cancel", 0, "void", <<>>)>>]
            ELSE [ret |-> Ok(Some(bytes_written)), scanning |-> scn, calls |-> rd]
       ELSE IF st = "Good"
       THEN [ret |-> Ok(Some(bytes_written)), scanning |-> scn, calls |-> rd]
       ELSE [ret |-> Err(st), scanning |-> scn, calls |-> rd]

\* a read that ends the session at end of stream without the cancel
read_eof_no_cancel(scn, st, data) ==
    LET rd == <<Call("sane_read", 0, st, data)>>
        bytes_written == Len(data)
    IN IF ~scn
       THEN [ret |-> Ok(None), scanning |-> scn, calls |-> <<>>]
       ELSE IF st = "Eof"
       THEN IF bytes_written = 0
            THEN [ret |-> Ok(None), scanning |-> FALSE, calls |-> rd]
            ELSE [ret |-> Ok(Some(bytes_written)), scanning |-> scn, calls |-> rd]
       ELSE IF st = "Good"
       THEN [ret |-> Ok(Some(bytes_written)), scanning |-> scn, calls |-> rd]
       ELSE [ret |-> Err(st), scanning |-> scn, calls |-> rd]

\* a read that gives the session up on an error status
read_error_ends_session(scn, st, data) ==
    LET rd == <<Call("sane_read", 0, st, data)>>
        bytes_written == Len(data)
    IN IF ~scn
       THEN [ret |-> Ok(None), scanning |-> scn, calls |-> <<>>]
       ELSE IF st = "Eof"
       THEN IF bytes_written = 0
            THEN [ret |-> Ok(None), scanning |-> FALSE,
                  calls |-> rd \o <<Call("sane_cancel", 0, "void", <<>>)>>]
            ELSE [ret |-> Ok(Some(bytes_written)), scanning |-> scn, calls |-> rd]
       ELSE IF st = "Good"
       THEN [ret |-> Ok(Some(bytes_written)), scanning |-> scn, calls |-> rd]
       ELSE [ret |-> Err(st), scanning |-> FALSE, calls |-> rd]

\* a read that takes every Eof for the end of the stream
read_eof_ends_session(scn, st, data) ==
    LET rd == <<Call("sane_read", 0, st, data)>>
        bytes_written == Len(data)
    IN IF ~scn
       THEN [ret |-> Ok(None), scanning |-> scn, calls |-> <<>>]
       ELSE IF st = "Eof"
       THEN [ret |-> Ok(IF bytes_written = 0 THEN None ELSE Some(bytes_written)),
             scanning |-> FALSE,
             calls |-> rd \o <<Call("sane_cancel", 0, "void", <<>>)>>]
       ELSE IF st = "Good"
       THEN [ret |-> Ok(Some(bytes_written)), scanning |-> scn, calls |-> rd]
       ELSE [ret |-> Err(st), scanning |-> scn, calls |-> rd]

\* DeviceHandle::read, given self.scanning and what sane_read answered:
\* its status and the bytes it wrote (bytes_written = Len(data))
read(scn, st, data) ==
    LET rd == <<Call("sane_read", 0, st, data)>>
        bytes_written == Len(data)
    IN IF ~scn
       THEN [ret |-> Ok(None), scanning |-> scn, calls |-> <<>>]
       ELSE IF st = "Eof"
       THEN IF bytes_written = 0
            THEN [ret |-> Ok(None), scanning |-> FALSE,
                  calls |-> rd \o <<Call("sane_cancel", 0, "void", <<>>)>>]
            ELSE [ret |-> Ok(Some(bytes_written)), scanning |-> scn, calls |-> rd]
       ELSE IF st = "Good"
       THEN [ret |-> Ok(Some(bytes_written)), scanning |-> scn, calls |-> rd]
       ELSE [ret |-> Err(st), scanning |-> scn, calls |-> rd]

\* what sane_read may answer for a buffer of len bytes: Good or Eof with at
\* most len bytes, or an error status with nothing written
ReadAnswers(len) ==
    {<<st, data>> \in Status \X SeqUpTo(Bytes, len) :
        st \in {"Good", "Eof"} \/ data = <<>>}

Read ==
    /\ pc = "idle"
    /\ handle = "open"
    /\ \E len \in 0..MaxBufLen : \E a \in ReadAnswers(len) :
        \* an answer is only drawn if sane_read is invoked
        /\ ~scanning => len = 0 /\ a = <<"Good", <<>>>>
        /\ LET r == read(scanning, a[1], a[2])
           IN /\ Finish("read", <<>>, r.ret, r.calls)
              /\ scanning' = r.scanning
    /\ UNCHANGED <<sane, handle, pc, image, buf>>

\* `bytes_per_line as usize * lines as usize` handed to Vec::<u8>::with_capacity
\* (both fields are i32).  A negative i32 becomes 2^64 - |x| as usize.  The
\* product overflows usize when either factor is negative and the other is
\* not 0: a build with overflow checks panics there, a build without wraps.
\* with_capacity itself panics ("capacity overflow") above isize::MAX bytes.
\*   both >= 0, or one is 0 : the product is small, the allocation succeeds
\*   one negative, one > 0  : exact or wrapped, the product is 2^64 - m*k,
\*                            above isize::MAX: a panic in every build
\*   both negative          : overflow panic with checks; wrapped the product
\*                            is bpl * lines, small, and the allocation succeeds
image_with_capacity(params) ==
    LET bytes_per_line == params[1]
        lines == params[2]
    IN IF bytes_per_line = 0 \/ lines = 0 THEN {"ok"}
       ELSE IF bytes_per_line > 0 /\ lines > 0 THEN {"ok"}
       ELSE IF bytes_per_line < 0 /\ lines < 0 THEN {"ok", "panic"}
       ELSE {"panic"}

\* read_to_vec, `while let Ok(Some(written)) = self.read(..)`: the loop body
\* runs on this result of read
LoopContinues(ret) == ret.kind = "Ok" /\ ret.val # None

\* read_to_vec, the loop body: image.extend_from_slice(&buf[0..written])
extend_from_slice(img, b, written) == img \o SubSeq(b, 1, written)

\* a read_to_vec that hands a read error on
read_to_vec_return_error(img, ret) ==
    IF ret.kind = "Err" THEN ret ELSE Ok(img)

\* read_to_vec, after the loop: Ok(image), whatever read returned last
read_to_vec_return(img, ret) == Ok(img)

\* the sane_read invocations among cs
Reads(cs) == SelectSeq(cs, LAMBDA c : c.fn = "sane_read")

\* read_to_vec up to its loop: the parameter query and the two allocations
ReadToVecBegin ==
    /\ pc = "idle"
    /\ handle = "open"
    /\ \E ans \in ParameterAnswers :
        LET params == ans[2]
            gp == get_parameters(ans[1], params)
        IN IF gp.ret.kind = "Err"
           THEN /\ Finish("read_to_vec", <<>>, gp.ret, gp.calls)
                /\ UNCHANGED <<pc, image, buf>>
           ELSE \E outcome \in image_with_capacity(params) :
                IF outcome = "panic"
                THEN /\ Finish("read_to_vec", <<>>, Panic, gp.calls)
                     /\ UNCHANGED <<pc, image, buf>>
                ELSE /\ Finish("read_to_vec", <<>>, Running, gp.calls)
                     /\ pc' = "read_to_vec"
                     /\ image' = <<>>
                     \* set_len over uninitialised capacity: any contents
                     /\ buf' \in [1..MaxBufLen -> Bytes]
    /\ UNCHANGED <<sane, handle, scanning>>

\* read_to_vec, one evaluation of the loop condition and, when it holds, of
\* the body; when it does not, the return
ReadToVecLoop ==
    /\ pc = "read_to_vec"
    /\ \E a \in ReadAnswers(Len(buf)) :
        \* the ABI ends the stream after MaxReads chunks
        /\ Len(Reads(calls)) >= MaxReads => a[2] = <<>> /\ a[1] # "Good"
        \* an answer is only drawn if sane_read is invoked
        /\ ~scanning => a = <<"Good", <<>>>>
        /\ LET r == read(scanning, a[1], a[2])
               b == IF scanning THEN WriteBuf(buf, a[2]) ELSE buf
           IN /\ scanning' = r.scanning
              /\ calls' = calls \o r.calls
              /\ session' = SessionAfter(session, r.calls)
              /\ IF LoopContinues(r.ret)
                 THEN /\ image' = extend_from_slice(image, b, r.ret.val[1])
                      /\ buf' = b
                      /\ UNCHANGED <<pc, last>>
                 ELSE /\ last' = Op("read_to_vec", <<>>, last.pre,
                                    read_to_vec_return(image, r.ret))
                      /\ pc' = "idle"
                      /\ image' = <<>>
                      /\ buf' = <<>>
    /\ UNCHANGED <<sane, handle, prev, inits, exits>>

\* get_options, `for option_idx in first..option_count_value`: fetch the
\* descriptor; null ends the call with Err(Error(status)), status being the
\* status of the option-count query; otherwise push the option
RECURSIVE get_options_loop(_, _, _, _, _, _)
get_options_loop(option_idx, option_count_value, nulls, status, options, cs) ==
    IF option_idx >= option_count_value
    THEN [ret |-> Ok(options), calls |-> cs]
    ELSE IF option_idx \in nulls
    THEN [ret |-> Err(status),
          calls |-> Append(cs, Call("sane_get_option_descriptor", option_idx, "null", <<>>))]
    ELSE get_options_loop(option_idx + 1, option_count_value, nulls, status,
             Append(options, option_idx),
             Append(cs, Call("sane_get_option_descriptor", option_idx, "ptr", <<>>)))

\* a get_options whose loop starts at index 0
get_options_from_zero(status, option_count_value, nulls) ==
    LET count == <<Control(0, "GetValue", status,
                           IF status = "Good" THEN <<option_count_value>> ELSE <<>>)>>
    IN IF status # "Good"
       THEN [ret |-> Err(status), calls |-> count]
       ELSE get_options_loop(0, option_count_value, nulls, status, <<>>, count)

\* DeviceHandle::get_options, given the status and the value of the
\* option-count query and the indices at which the ABI has no descriptor;
\* an option is its option_idx.  The count is never negative (it counts
\* option 0 too), so Vec::with_capacity(option_count_value as usize) succeeds
get_options(status, option_count_value, nulls) ==
    LET count == <<Control(0, "GetValue", status,
                           IF status = "Good" THEN <<option_count_value>> ELSE <<>>)>>
    IN IF status # "Good"
       THEN [ret |-> Err(status), calls |-> count]
       ELSE get_options_loop(1, option_count_value, nulls, status, <<>>, count)

GetOptions ==
    /\ pc = "idle"
    /\ handle = "open"
    /\ \E status \in Status, n \in 0..MaxOptCount :
       \E nulls \in SUBSET (1..(n - 1)) :
        /\ status # "Good" => n = 0
        /\ LET r == get_options(status, n, nulls)
           IN Finish("get_options", <<>>, r.ret, r.calls)
    /\ UNCHANGED <<sane, handle, scanning, pc, image, buf>>

\* the option indices an enumeration can have captured
OptionIdx == 1..(MaxOptCount - 1)

\* the word the ABI stores in a value buffer
Words == 0..1

\* OptionInfo bitsets a set operation reports: empty, INFO_INEXACT,
\* INFO_RELOAD_OPTIONS, INFO_RELOAD_PARAMS
OptionInfo == {0, 1, 2, 4}

\* DeviceHandle::get_option, given opt.option_idx, opt.type_, and the status
\* and word that sane_control_option answered
get_option(option_idx, type_, st, w) ==
    LET cs == <<Control(option_idx, "GetValue", st, IF st = "Good" THEN <<w>> ELSE <<>>)>>
    IN IF st # "Good" THEN [ret |-> Err(st), calls |-> cs]
       ELSE IF type_ \in {"Button", "Group"} THEN [ret |-> Panic, calls |-> cs]
       ELSE [ret |-> Ok(<<w>>), calls |-> cs]

GetOption ==
    /\ pc = "idle"
    /\ handle = "open"
    /\ \E option_idx \in OptionIdx, type_ \in ValueType, st \in Status, w \in Words :
        /\ st # "Good" => w = 0
        /\ LET r == get_option(option_idx, type_, st, w)
           IN Finish("get_option", <<type_>>, r.ret, r.calls)
    /\ UNCHANGED <<sane, handle, scanning, pc, image, buf>>

\* DeviceHandle::set_option, given opt.option_idx, the tag of the value, and
\* the status and info bits that sane_control_option answered
set_option(option_idx, value, st, info) ==
    LET cs == <<Control(option_idx, "SetValue", st, IF st = "Good" THEN <<info>> ELSE <<>>)>>
    IN IF value = "Group" THEN [ret |-> Panic, calls |-> <<>>]
       ELSE IF st # "Good" THEN [ret |-> Err(st), calls |-> cs]
       ELSE [ret |-> Ok(<<info>>), calls |-> cs]

SetOption ==
    /\ pc = "idle"
    /\ handle = "open"
    /\ \E option_idx \in OptionIdx, type_ \in ValueType, value \in DeviceOptionValue,
          st \in Status, info \in OptionInfo :
        /\ (st # "Good" \/ value = "Group") => info = 0
        /\ value = "Group" => st = "Good"
        /\ LET r == set_option(option_idx, value, st, info)
           IN Finish("set_option", <<type_, value>>, r.ret, r.calls)
    /\ UNCHANGED <<sane, handle, scanning, pc, image, buf>>

\* a set_option_auto that cancels the scan on its way
set_option_auto_cancels(option_idx, st, info) ==
    LET cs == <<Control(option_idx, "SetAuto", st, IF st = "Good" THEN <<info>> ELSE <<>>),
                Call("sane_cancel", 0, "void", <<>>)>>
    IN IF st # "Good" THEN [ret |-> Err(st), calls |-> cs]
       ELSE [ret |-> Ok(<<info>>), calls |-> cs]

\* DeviceHandle::set_option_auto
set_option_auto(option_idx, st, info) ==
    LET cs == <<Control(option_idx, "SetAuto", st, IF st = "Good" THEN <<info>> ELSE <<>>)>>
    IN IF st # "Good" THEN [ret |-> Err(st), calls |-> cs]
       ELSE [ret |-> Ok(<<info>>), calls |-> cs]

SetOptionAuto ==
    /\ pc = "idle"
    /\ handle = "open"
    /\ \E option_idx \in OptionIdx, st \in Status, info \in OptionInfo :
        /\ st # "Good" => info = 0
        /\ LET r == set_option_auto(option_idx, st, info)
           IN Finish("set_option_auto", <<>>, r.ret, r.calls)
    /\ UNCHANGED <<sane, handle, scanning, pc, image, buf>>

\* the option descriptors whose constraint get_options decodes:
\* constraint_type and the memory the constraint pointer leads to.  A range
\* is <<min, max, quant>>, a word list starts with its length, a string list
\* ends with a null
OptionDescriptors ==
    {[constraint_type |-> "None", constraint |-> <<>>]}
    \cup {[constraint_type |-> "Range", constraint |-> <<min, max, quant>>] :
            min \in -MaxRange..MaxRange, max \in -MaxRange..MaxRange, quant \in Words}
    \cup {[constraint_type |-> "WordList", constraint |-> <<Len(ws)>> \o ws] :
            ws \in SeqUpTo(Words, 2)}
    \cup {[constraint_type |-> "StringList", constraint |-> Append(strs, NullPtr)] :
            strs \in SeqUpTo({<<1>>, <<2>>}, 2)}

\* get_options, `let constraint = match (*option_descriptor).constraint_type`.
\* A std::ops::Range is the pair of its fields start and end
OptionConstraint(d) ==
    IF d.constraint_type = "None" THEN [kind |-> "None"]
    ELSE IF d.constraint_type = "Range"
    THEN [kind |-> "Range",
          range |-> [start |-> d.constraint[1], end |-> d.constraint[2]],
          quant |-> d.constraint[3]]
    ELSE IF d.constraint_type = "WordList"
    THEN [kind |-> "WordList",
          list |-> SubSeq(d.constraint, 2, d.constraint[1] + 1)]
    ELSE [kind |-> "StringList",
          list |-> SubSeq(d.constraint, 1, device_count(d.constraint, 0))]

\* get_options, the body of its loop on one descriptor that is not null: the
\* constraint of the option pushed.  A range has min <= max
DecodeConstraint ==
    /\ pc = "idle"
    /\ handle = "open"
    /\ \E d \in OptionDescriptors :
        /\ d.constraint_type = "Range" => d.constraint[1] <= d.constraint[2]
        /\ Finish("constraint", <<d>>, Ok(OptionConstraint(d)), <<>>)
    /\ UNCHANGED <<sane, handle, scanning, pc, image, buf>>

Next ==
    \/ SaneInit
    \/ SaneDrop
    \/ GetDevices
    \/ Open
    \/ DropHandle
    \/ GetParameters
    \/ StartScan
    \/ Read
    \/ ReadToVecBegin
    \/ ReadToVecLoop
    \/ GetOptions
    \/ GetOption
    \/ SetOption
    \/ SetOptionAuto
    \/ DecodeConstraint

Spec == Init /\ [][Next]_vars

\* the contexts, the handle's life and its scan session
NextScan ==
    \/ SaneInit
    \/ SaneDrop
    \/ Open
    \/ DropHandle
    \/ GetParameters
    \/ StartScan
    \/ Read
    \/ ReadToVecBegin
    \/ ReadToVecLoop

SpecScan == Init /\ [][NextScan]_vars

\* the handle's life and its options, on an idle or a scanning handle
NextOptions ==
    \/ SaneInit
    \/ SaneDrop
    \/ GetDevices
    \/ Open
    \/ DropHandle
    \/ StartScan
    \/ GetOptions
    \/ GetOption
    \/ SetOption
    \/ SetOptionAuto

SpecOptions == Init /\ [][NextOptions]_vars

\* the contexts, the device enumeration and the handle's life
NextContext ==
    \/ SaneInit
    \/ SaneDrop
    \/ GetDevices
    \/ Open
    \/ DropHandle
    \/ StartScan

SpecContext == Init /\ [][NextContext]_vars

\* the scan session next to the operations on options and parameters
NextFrame ==
    \/ SaneInit
    \/ Open
    \/ DropHandle
    \/ GetParameters
    \/ StartScan
    \/ Read
    \/ GetOptions
    \/ GetOption
    \/ SetOption
    \/ SetOptionAuto

SpecFrame == Init /\ [][NextFrame]_vars

\* the constraints decoded for the options of an open handle
NextConstraint ==
    \/ SaneInit
    \/ Open
    \/ DecodeConstraint

SpecConstraint == Init /\ [][NextConstraint]_vars


\* ------------------------------------------------------------ properties

\* the entry points invoked, in order
Fns(cs) == [i \in 1..Len(cs) |-> cs[i].fn]

\* the bytes the ABI delivered through the sane_read invocations among cs
RECURSIVE Streamed(_)
Streamed(cs) ==
    IF cs = <<>> THEN <<>>
    ELSE (IF Head(cs).fn = "sane_read" THEN Head(cs).out ELSE <<>>)
             \o Streamed(Tail(cs))

\* some sane_read among cs reported an error status
ReadFailed(cs) ==
    \E i \in 1..Len(cs) : cs[i].fn = "sane_read" /\ cs[i].st \notin {"Good", "Eof"}

\* C1: dropping a handle invokes sane_close exactly once, as the last ABI
\* call; if scanning was set, sane_cancel is invoked once, before it; if it
\* was not, sane_cancel is not invoked.
C1_DropCancelsThenCloses ==
    last.op = "drop_handle" =>
        /\ Count(calls, "sane_close") = 1
        /\ calls[Len(calls)].fn = "sane_close"
        /\ last.pre => Fns(calls) = <<"sane_cancel", "sane_close">>
        /\ ~last.pre => Count(calls, "sane_cancel") = 0

C1_Witness ==
    /\ last.op = "drop_handle"
    /\ last.pre
    /\ Fns(calls) = <<"sane_cancel", "sane_close">>

\* C2: on an open handle, scanning is set exactly when sane_start has
\* succeeded on it and read has not ended that session since.
C2_ScanningIffSession ==
    handle = "open" => (scanning <=> session)

\* C3: read on a handle that is not scanning returns Ok(None), invokes no
\* ABI entry point and leaves scanning unset.
C3_IdleReadTouchesNothing ==
    (last.op = "read" /\ ~last.pre) =>
        /\ last.kind = "Ok"
        /\ last.val = None
        /\ calls = <<>>
        /\ ~scanning

C3_Witness ==
    /\ last.op = "read"
    /\ ~last.pre
    /\ last.val = None
    /\ calls = <<>>
    /\ handle = "open"

\* C4: read on a scanning handle whose sane_read reports Eof with 0 bytes
\* clears scanning, invokes sane_cancel exactly once and returns Ok(None).
C4_EofZeroEndsSession ==
    (/\ last.op = "read"
     /\ last.pre
     /\ calls # <<>>
     /\ calls[1].st = "Eof"
     /\ calls[1].out = <<>>) =>
        /\ ~scanning
        /\ Count(calls, "sane_cancel") = 1
        /\ Fns(calls) = <<"sane_read", "sane_cancel">>
        /\ last.kind = "Ok"
        /\ last.val = None

C4_Witness ==
    /\ last.op = "read"
    /\ last.pre
    /\ Fns(calls) = <<"sane_read", "sane_cancel">>
    /\ calls[1].st = "Eof"
    /\ ~scanning

\* C5: if sane_start reports a status other than Good, start_scan returns
\* an error with that status, does not query the parameters, and scanning
\* keeps its value (unset stays unset); if sane_start and the parameter query
\* both succeed, it returns the parameters queried and scanning is set.
C5_StartScanOutcome ==
    last.op = "start_scan" =>
        /\ calls[1].fn = "sane_start"
        /\ calls[1].st # "Good" =>
              /\ last.kind = "Err"
              /\ last.status = calls[1].st
              /\ Count(calls, "sane_get_parameters") = 0
              /\ scanning = last.pre
              /\ ~last.pre => ~scanning
        /\ (calls[1].st = "Good" /\ calls[Len(calls)].st = "Good") =>
              /\ Fns(calls) = <<"sane_start", "sane_get_parameters">>
              /\ last.kind = "Ok"
              /\ last.val = calls[2].out
              /\ scanning

C5_Witness ==
    /\ last.op = "start_scan"
    /\ calls[1].st = "IoError"
    /\ last.kind = "Err"
    /\ ~scanning

\* C6: read on a scanning handle whose sane_read reports a status other than
\* Good and Eof returns an error with that status, invokes no sane_cancel and
\* leaves scanning set; a drop of the handle right after such a read invokes
\* sane_cancel, then sane_close.
C6_ReadErrorKeepsSession ==
    /\ (last.op = "read" /\ last.pre /\ ReadFailed(calls)) =>
          /\ last.kind = "Err"
          /\ last.status = calls[1].st
          /\ Count(calls, "sane_cancel") = 0
          /\ scanning
    /\ (last.op = "drop_handle" /\ prev = "read_err") =>
          Fns(calls) = <<"sane_cancel", "sane_close">>

C6_Witness ==
    /\ last.op = "drop_handle"
    /\ prev = "read_err"
    /\ Fns(calls) = <<"sane_cancel", "sane_close">>

\* C7: read_to_vec on a scanning handle, with a successful parameter query
\* and a stream without an error status, returns Ok with exactly the bytes
\* streamed, in order, and the handle is no longer scanning.
C7_ReadToVecReturnsStream ==
    (/\ last.op = "read_to_vec"
     /\ pc = "idle"
     /\ last.pre
     /\ calls[1].st = "Good"
     /\ ~ReadFailed(calls)) =>
        /\ last.kind = "Ok"
        /\ last.val = Streamed(calls)
        /\ ~scanning

\* C8: when a sane_read inside read_to_vec reports an error status, that
\* read is the last one, read_to_vec returns Ok with exactly the bytes of
\* the chunks before it, and scanning stays set; a drop of the handle right
\* after invokes sane_cancel, then sane_close.
C8_ReadToVecSwallowsError ==
    /\ (last.op = "read_to_vec" /\ ReadFailed(calls)) =>
          /\ pc = "idle"
          /\ ~ReadFailed(SubSeq(calls, 1, Len(calls) - 1))
          /\ last.kind = "Ok"
          /\ last.val = Streamed(calls)
          /\ scanning
    /\ (last.op = "drop_handle" /\ prev = "read_to_vec_err") =>
          Fns(calls) = <<"sane_cancel", "sane_close">>

C8_Witness ==
    /\ last.op = "read_to_vec"
    /\ ReadFailed(calls)
    /\ last.kind = "Ok"
    /\ last.val = <<0, 1>>
    /\ scanning

\* C9: every error an operation returns wraps a status other than Good.
C9_ErrorNeverGood ==
    last.kind = "Err" => last.status # "Good"

C11_ExitOncePerDroppedContext ==
    /\ exits = inits - sane
    /\ last.op = "drop_sane" => Fns(calls) = <<"sane_exit">>
    /\ last.op = "init" =>
          /\ Fns(calls) = <<"sane_init">>
          /\ last.kind = "Ok" <=> calls[1].st = "Good"
          /\ last.kind = "Err" => last.status = calls[1].st

C11_Witness ==
    /\ last.op = "drop_sane"
    /\ inits = 2
    /\ exits = 2
    /\ sane = 0


\* the operations that take a DeviceHandle
HandleOps ==
    {"drop_handle", "get_parameters", "start_scan", "read", "read_to_vec",
     "get_options", "get_option", "set_option", "set_option_auto"}

\* C12: sane_exit is never invoked while a handle is open: an open handle
\* always has a live context, so its close and cancel precede the exit and
\* no handle ABI call follows it.
C12_HandlesBeforeContext ==
    /\ handle = "open" => sane > 0
    /\ (last.op \in HandleOps /\ calls # <<>>) => sane > 0

\* number of records of arr before its first null
FirstNull(arr) ==
    CHOOSE n \in 0..Len(arr) :
        /\ \A i \in 1..n : arr[i] # NullPtr
        /\ n = Len(arr) \/ arr[n + 1] = NullPtr

\* C14: when sane_get_devices reports Good with an array whose first null
\* is after k records, get_devices returns k devices, the i-th holding the
\* name, vendor, model and type of the i-th record, and reads no record and
\* no slot behind that null (none at all for [null]); on another status it
\* returns that status as the error and reads nothing of the array.
C14_DevicesUpToFirstNull ==
    last.op = "get_devices" =>
        /\ calls[1].fn = "sane_get_devices"
        /\ calls[1].st # "Good" =>
              /\ last.kind = "Err"
              /\ last.status = calls[1].st
              /\ Len(calls) = 1
        /\ calls[1].st = "Good" =>
              LET arr == calls[1].out
                  k == FirstNull(arr)
              IN /\ last.kind = "Ok"
                 /\ Len(last.val) = k
                 /\ \A i \in 1..k :
                       /\ last.val[i].name = arr[i][1]
                       /\ last.val[i].vendor = arr[i][2]
                       /\ last.val[i].model = arr[i][3]
                       /\ last.val[i].type_ = arr[i][4]
                 /\ \A j \in 2..Len(calls) :
                       /\ calls[j].fn = "device" => calls[j].idx <= k
                       /\ calls[j].fn = "device_list" => calls[j].idx <= k + 1
                 /\ Count(calls, "device") = k

C14_Witness ==
    /\ last.op = "get_devices"
    /\ calls[1].st = "Good"
    /\ Len(calls[1].out) = 2
    /\ calls[1].out[1] # NullPtr
    /\ calls[1].out[2] = NullPtr
    /\ Len(last.val) = 1
    /\ last.val[1].vendor = calls[1].out[1][2]


\* C13: set_option with a value whose variant is not the option's type, or
\* with the Group variant, and get_option on an option of type Button or
\* Group, end in a panic, whatever status sane_control_option reports.
C13_PreconditionViolationsPanic ==
    /\ (/\ last.op = "set_option"
        /\ (last.args[2] # last.args[1] \/ last.args[2] = "Group")) =>
          last.kind = "Panic"
    /\ (last.op = "get_option" /\ last.args[1] \in {"Button", "Group"}) =>
          last.kind = "Panic"

\* a read on a scanning handle that the ABI answered with Eof and n > 0 bytes
EofWithBytes ==
    /\ last.op = "read"
    /\ last.pre
    /\ calls # <<>>
    /\ calls[1].st = "Eof"
    /\ calls[1].out # <<>>

\* C15: read on a scanning handle whose sane_read reports Eof with n > 0
\* bytes returns Ok(Some(n)), invokes no sane_cancel and leaves scanning
\* set; a read right after it invokes sane_read again, and ends the session
\* exactly when that one reports Eof with 0 bytes.
C15_EofWithBytesKeepsSession ==
    /\ [](EofWithBytes =>
            /\ last.kind = "Ok"
            /\ last.val = Some(Len(calls[1].out))
            /\ Fns(calls) = <<"sane_read">>
            /\ scanning)
    /\ [][(EofWithBytes /\ last'.op = "read") =>
            /\ calls' # <<>>
            /\ calls'[1].fn = "sane_read"
            /\ ~scanning' <=> (calls'[1].st = "Eof" /\ calls'[1].out = <<>>)]_vars

C15_Witness ==
    /\ EofWithBytes
    /\ last.val = Some(1)
    /\ scanning
    /\ session

\* std::ops::Range<i32>::contains
Range_contains(range, v) == range.start <= v /\ v < range.end

\* C16: the constraint decoded from a Range descriptor (min, max, quant) has
\* every integer v with min <= v <= max as a member of its range, and its
\* quant is the descriptor's.
C16_RangeIsInclusive ==
    (last.op = "constraint" /\ last.args[1].constraint_type = "Range") =>
        LET d == last.args[1].constraint
        IN /\ last.val.kind = "Range"
           /\ \A v \in d[1]..d[2] : Range_contains(last.val.range, v)
           /\ last.val.quant = d[3]

\* the ABI invocations of a step: those of the operation it performs, or
\* those one turn of the loop of read_to_vec adds
NewCalls ==
    IF pc = "read_to_vec" THEN SubSeq(calls', Len(calls) + 1, Len(calls')) ELSE calls'

\* C17: a step invokes sane_cancel only if scanning was set before it, once,
\* from read (also inside read_to_vec) or from the drop of the handle, and
\* the flag is unset after it; the flag is only set again by a start_scan
\* that returns Ok, so that two cancels have such a start_scan between them.
C17_CancelOnlyWhenScanning ==
    [][/\ Count(NewCalls, "sane_cancel") > 0 =>
            /\ scanning
            /\ Count(NewCalls, "sane_cancel") = 1
            /\ last'.op \in {"read", "read_to_vec", "drop_handle"}
            /\ ~scanning'
       /\ (~scanning /\ scanning') =>
            /\ last'.op = "start_scan"
            /\ last'.kind = "Ok"]_vars

C17_Witness ==
    /\ last.op = "read_to_vec"
    /\ pc = "idle"
    /\ last.pre
    /\ Len(Reads(calls)) = 2
    /\ Count(calls, "sane_cancel") = 1
    /\ ~scanning

\* the operations on options and parameters
FrameOps ==
    {"get_options", "get_option", "set_option", "set_option_auto", "get_parameters"}

C19_ReadToVecEnds ==
    last.op = "read_to_vec" =>
        /\ calls[1].fn = "sane_get_parameters"
        /\ \A i \in 1..Len(calls) :
              (/\ calls[i].fn = "sane_read"
               /\ \/ calls[i].st \notin {"Good", "Eof"}
                  \/ calls[i].st = "Eof" /\ calls[i].out = <<>>) =>
                 /\ pc = "idle"
                 /\ \A j \in (i + 1)..Len(calls) : calls[j].fn # "sane_read"
        /\ calls[1].st # "Good" =>
              /\ pc = "idle"
              /\ last.kind = "Err"
              /\ last.status = calls[1].st
              /\ Len(calls) = 1
              /\ scanning = last.pre
        /\ (calls[1].st = "Good" /\ ~last.pre) =>
              /\ last.kind \in {"Ok", "Running"}
              /\ last.val = <<>>
              /\ Count(calls, "sane_read") = 0

====
